---- MODULE Spec2Model ----
(***************************************************************************)
(* binviz (src/binviz.cpp): a file is read three bytes at a time, each     *)
(* triplet is packed into an int, the ints are sorted, duplicates are      *)
(* merged and counted, and the resulting points are drawn in a GLFW render *)
(* loop whose rotation and zoom follow targets set by the input callbacks. *)
(*                                                                         *)
(* Numbers held in double/float variables are modelled as exact rationals  *)
(* <<numerator, denominator>>; floating-point rounding is not modelled.    *)
(* A Point is kept in spherical form (xRot, yRot, radius as numerators     *)
(* over 255); the sin/cos conversion of lines 130-132 is a function of     *)
(* these three and is not modelled.                                        *)
(***************************************************************************)
EXTENDS Integers, Sequences, FiniteSets

VARIABLES
  argc, fileOpens, fileBytes, charSigned,
  pc, ret, prevPoints, nLoads,
  points, sortBuffer, length, i,
  lastMouseX, lastMouseY, zoomLevel, zoomTarget,
  rotX, rotY, targetRotX, targetRotY, mouseDown,
  winWidth, winHeight, deltaTime,
  cursorX, cursorY, shiftDown, shouldClose, windowOpen,
  nEvents, nFrames

fileVars == <<argc, fileOpens, fileBytes, charSigned>>
loadVars == <<points, sortBuffer, length, i>>
callVars == <<ret, prevPoints, nLoads>>
camVars  == <<lastMouseX, lastMouseY, zoomLevel, zoomTarget,
              rotX, rotY, targetRotX, targetRotY, mouseDown>>
frameVars == <<winWidth, winHeight, deltaTime, nFrames>>
envVars  == <<cursorX, cursorY, shiftDown, shouldClose, windowOpen>>
vars == <<fileVars, pc, callVars, loadVars, camVars, frameVars, envVars, nEvents>>

----------------------------------------------------------------------------
(* Bounds of the model *)

\* longest file of the loader specification (three triplets)
MaxLen == 9
\* longest file of the repeated-load specification
ReloadMaxLen == 6
\* calls of loadFile in the repeated-load specification
MaxLoads == 2
\* largest value an uninitialised Point::count is drawn from
MaxGarbage == 1
\* input callbacks delivered in one run
MaxEvents == 2
\* iterations of the render loop in one run
MaxFrames == 2
\* iterations of the render loop in the convergence specification
MaxConvFrames == 5

\* byte values of the loader's files: both sides of the sign bit
ByteVals == {0, 1, 128}
\* byte values of the whole-program and repeated-load files
MainByteVals == {0}
\* lengths of the whole-program files: empty, too short, one triplet, two
MainFileLengths == {0, 1, 2, 3, 6}
\* values an indeterminate int may hold
IndeterminateInts == 0..MaxGarbage

SeqsUpTo(S, n) == UNION {[1..k -> S] : k \in 0..n}

----------------------------------------------------------------------------
(* Exact rational arithmetic for the double and float variables.  The      *)
(* operations are functions, so that an argument is evaluated once.        *)

Abs(n) == IF n < 0 THEN -n ELSE n

gcd[a \in Nat, b \in Nat] == IF b = 0 THEN a ELSE gcd[b, a % b]

GCD(a, b) == gcd[a, b]

\* numerator and denominator
Rational == Int \X Int

rat[n \in Int, d \in Int] ==
  LET s == IF d < 0 THEN -1 ELSE 1
      g == gcd[Abs(n), Abs(d)]
  IN  <<(s * n) \div g, (s * d) \div g>>

Rat(n, d) == rat[n, d]

Num(n) == <<n, 1>>

radd[a \in Rational, b \in Rational] ==
  LET g == gcd[a[2], b[2]]
      l == (a[2] \div g) * b[2]
  IN  rat[a[1] * (l \div a[2]) + b[1] * (l \div b[2]), l]

RAdd(a, b) == radd[a, b]

RNeg(a) == <<-a[1], a[2]>>

RSub(a, b) == radd[a, RNeg(b)]

rmul[a \in Rational, b \in Rational] ==
  LET g1 == gcd[Abs(a[1]), b[2]]
      g2 == gcd[Abs(b[1]), a[2]]
  IN  rat[(a[1] \div g1) * (b[1] \div g2), (a[2] \div g2) * (b[2] \div g1)]

RMul(a, b) == rmul[a, b]

RDiv(a, b) == rmul[a, IF b[1] < 0 THEN <<-b[2], -b[1]>> ELSE <<b[2], b[1]>>]

RSign(a) == IF a[1] > 0 THEN 1 ELSE IF a[1] < 0 THEN -1 ELSE 0

RLt(a, b) == RSign(RSub(a, b)) < 0

RLe(a, b) == RSign(RSub(a, b)) <= 0

RAbs(a) == <<Abs(a[1]), a[2]>>

----------------------------------------------------------------------------
(* loadFile: packing, sorting, unpacking *)

\* buffer[k] read through char* and converted to int: sign-extended where
\* plain char is signed (x86), zero-extended where it is unsigned (ARM)
CharToInt(b) == IF charSigned /\ b >= 128 THEN b - 256 ELSE b

\* x << 8 on an int; every value shifted here lies within -2^15 .. 2^15, so
\* the 32-bit width is never reached
Shl8(x) == x * 256

\* lines 96-98
Pack(b0, b1, b2) ==
  LET x0 == CharToInt(b2)
      x1 == Shl8(x0) + CharToInt(b1)
  IN  Shl8(x1) + CharToInt(b0)

\* (packed >> s) & 0xFF, the shift being arithmetic
ByteAt(packed, s) == (packed \div (2 ^ s)) % 256

\* lines 94-100: sortBuffer before the sort
PackAll(buffer) ==
  [k \in 1..(Len(buffer) \div 3) |->
     Pack(buffer[3 * k - 2], buffer[3 * k - 1], buffer[3 * k])]

RECURSIVE Insert(_, _)
Insert(s, x) ==
  IF s = <<>> THEN <<x>>
  ELSE IF x <= Head(s) THEN <<x>> \o s
  ELSE <<Head(s)>> \o Insert(Tail(s), x)

RECURSIVE SortAsc(_)
SortAsc(s) == IF s = <<>> THEN <<>> ELSE Insert(SortAsc(Tail(s)), Head(s))

\* lines 118-126 and 134: the point made from a packed value; count is not set
\* by the constructor, so it holds whatever value c the memory held
NewPoint(packed, c) ==
  [xRot   |-> ByteAt(packed, 16),
   yRot   |-> ByteAt(packed, 8),
   radius |-> ByteAt(packed, 0),
   count  |-> c]

\* a file that loadFile cannot turn into points
LoadFails == ~fileOpens \/ Len(fileBytes) < 3

----------------------------------------------------------------------------
(* main, up to the render loop *)

\* lines 145-148
MainUsage ==
  /\ pc = "main"
  /\ argc < 2
  /\ pc' = "exit_failure"
  /\ UNCHANGED <<fileVars, callVars, loadVars, camVars, frameVars, envVars, nEvents>>

\* line 150: the call
MainCallLoadFile ==
  /\ pc = "main"
  /\ argc >= 2
  /\ pc' = "loadFile"
  /\ prevPoints' = points
  /\ nLoads' = nLoads + 1
  /\ UNCHANGED <<fileVars, ret, loadVars, camVars, frameVars, envVars, nEvents>>

\* LoadFileOpenFails had the clear of line 79 come after the open succeeded
LoadFileOpenFails_KeepsPoints ==
  /\ pc = "loadFile"
  /\ ~fileOpens
  /\ ret' = 0
  /\ pc' = "loaded"
  /\ UNCHANGED <<fileVars, prevPoints, nLoads, loadVars,
                 camVars, frameVars, envVars, nEvents>>

\* lines 79-82, 141: the set is cleared, the file does not open, 0 is returned
LoadFileOpenFails ==
  /\ pc = "loadFile"
  /\ ~fileOpens
  /\ points' = <<>>
  /\ ret' = 0
  /\ pc' = "loaded"
  /\ UNCHANGED <<fileVars, prevPoints, nLoads, sortBuffer, length, i,
                 camVars, frameVars, envVars, nEvents>>

\* lines 79-106: the set is cleared, the file is read, packed and sorted
LoadFileRead ==
  /\ pc = "loadFile"
  /\ fileOpens
  /\ points' = <<>>
  /\ sortBuffer' = SortAsc(PackAll(fileBytes))
  /\ length' = Len(fileBytes) \div 3
  /\ i' = 0
  /\ pc' = "walk"
  /\ UNCHANGED <<fileVars, callVars, camVars, frameVars, envVars, nEvents>>

\* line 110, with sortBuffer indexed from 1
IsDuplicate == i > 0 /\ sortBuffer[i + 1] = sortBuffer[i]

\* lines 107-114: an iteration that finds the predecessor's value again
LoadFileDuplicate ==
  /\ pc = "walk"
  /\ i < length
  /\ IsDuplicate
  /\ points' = [points EXCEPT ![Len(points)].count = @ + 1]
  /\ i' = i + 1
  /\ UNCHANGED <<fileVars, pc, callVars, sortBuffer, length,
                 camVars, frameVars, envVars, nEvents>>

\* lines 107-135: an iteration that makes a new point
LoadFileEmit ==
  /\ pc = "walk"
  /\ i < length
  /\ ~IsDuplicate
  /\ \E c \in IndeterminateInts :
       points' = Append(points, NewPoint(sortBuffer[i + 1], c))
  /\ i' = i + 1
  /\ UNCHANGED <<fileVars, pc, callVars, sortBuffer, length,
                 camVars, frameVars, envVars, nEvents>>

\* lines 136-138: the buffers are freed and the number of triplets returned
LoadFileReturn ==
  /\ pc = "walk"
  /\ i = length
  /\ ret' = length
  /\ sortBuffer' = <<>>
  /\ length' = 0
  /\ i' = 0
  /\ pc' = "loaded"
  /\ UNCHANGED <<fileVars, prevPoints, nLoads, points,
                 camVars, frameVars, envVars, nEvents>>

LoadFile ==
  \/ LoadFileOpenFails
  \/ LoadFileRead
  \/ LoadFileDuplicate
  \/ LoadFileEmit
  \/ LoadFileReturn

\* lines 153-156
MainLoadFailed ==
  /\ pc = "loaded"
  /\ ret = 0
  /\ pc' = "exit_failure"
  /\ UNCHANGED <<fileVars, callVars, loadVars, camVars, frameVars, envVars, nEvents>>

\* MainLoadOk had line 153 not tested the returned length
MainLoadOk_Unchecked ==
  /\ pc = "loaded"
  /\ pc' = "glfwInit"
  /\ UNCHANGED <<fileVars, callVars, loadVars, camVars, frameVars, envVars, nEvents>>

\* line 153, the other branch
MainLoadOk ==
  /\ pc = "loaded"
  /\ ret # 0
  /\ pc' = "glfwInit"
  /\ UNCHANGED <<fileVars, callVars, loadVars, camVars, frameVars, envVars, nEvents>>

\* lines 161-164
GlfwInit ==
  /\ pc = "glfwInit"
  /\ \E ok \in BOOLEAN : pc' = IF ok THEN "createWindow" ELSE "exit_failure"
  /\ UNCHANGED <<fileVars, callVars, loadVars, camVars, frameVars, envVars, nEvents>>

\* lines 166-187
CreateWindow ==
  /\ pc = "createWindow"
  /\ \E ok \in BOOLEAN :
       /\ windowOpen' = ok
       /\ pc' = IF ok THEN "frame" ELSE "exit_failure"
  /\ UNCHANGED <<fileVars, callVars, loadVars, camVars, frameVars,
                 cursorX, cursorY, shiftDown, shouldClose, nEvents>>

----------------------------------------------------------------------------
(* the input callbacks, run by glfwPollEvents (line 233) *)

\* pointer positions the window system reports (pixels)
CursorPositions == {<<0, 0>>, <<64, 48>>, <<320, 48>>}
\* framebuffer sizes glfwGetFramebufferSize returns (line 197)
WinSizes == {<<640, 480>>, <<320, 240>>}
\* wheel offsets a scroll event carries
ScrollOffsets == {-25, 1}
\* line 73
ZoomFloor == <<1, 10>>

\* lines 53-54: the target after a move to c from last, over a viewport of size
DragTarget(target, c, last, size) ==
  RSub(target, RMul(RDiv(RSub(Num(c), last), Num(size)), Num(100)))

\* CursorCallback had line 51 not tested mouseDown
CursorCallback_NoGuard(x, y) ==
  /\ targetRotX' = DragTarget(targetRotX, x, lastMouseX, winWidth)
  /\ targetRotY' = DragTarget(targetRotY, y, lastMouseY, winHeight)
  /\ lastMouseX' = Num(x)
  /\ lastMouseY' = Num(y)
  /\ UNCHANGED <<zoomLevel, zoomTarget, rotX, rotY, mouseDown>>

\* lines 50-58
CursorCallback(x, y) ==
  /\ targetRotX' = IF mouseDown
                      THEN DragTarget(targetRotX, x, lastMouseX, winWidth)
                      ELSE targetRotX
  /\ targetRotY' = IF mouseDown
                      THEN DragTarget(targetRotY, y, lastMouseY, winHeight)
                      ELSE targetRotY
  /\ lastMouseX' = Num(x)
  /\ lastMouseY' = Num(y)
  /\ UNCHANGED <<zoomLevel, zoomTarget, rotX, rotY, mouseDown>>

\* the pointer moves to another place and the callback is told
CursorEvent ==
  /\ pc = "poll"
  /\ nEvents < MaxEvents
  /\ \E c \in CursorPositions \ {<<cursorX, cursorY>>} :
       /\ cursorX' = c[1]
       /\ cursorY' = c[2]
       /\ CursorCallback(c[1], c[2])
  /\ nEvents' = nEvents + 1
  /\ UNCHANGED <<fileVars, pc, callVars, loadVars, frameVars,
                 shiftDown, shouldClose, windowOpen>>

\* lines 60-63
MouseButtonCallback(action) ==
  /\ mouseDown' = (action = "PRESS")
  /\ UNCHANGED <<lastMouseX, lastMouseY, zoomLevel, zoomTarget,
                 rotX, rotY, targetRotX, targetRotY>>

MouseButtonEvent ==
  /\ pc = "poll"
  /\ nEvents < MaxEvents
  /\ \E action \in {"PRESS", "RELEASE"} : MouseButtonCallback(action)
  /\ nEvents' = nEvents + 1
  /\ UNCHANGED <<fileVars, pc, callVars, loadVars, frameVars, envVars>>

\* ScrollTarget without the floor of lines 73-75
ScrollTarget_NoFloor(target, yOffset, shift) ==
  IF shift THEN RAdd(target, Num(yOffset))
           ELSE RAdd(target, RDiv(Num(yOffset), Num(25)))

\* lines 67-75: the zoom target after a scroll of yOffset
ScrollTarget(target, yOffset, shift) ==
  LET t == IF shift THEN RAdd(target, Num(yOffset))
                    ELSE RAdd(target, RDiv(Num(yOffset), Num(25)))
  IN  IF RLt(t, ZoomFloor) THEN ZoomFloor ELSE t

\* lines 65-76
ScrollCallback(yOffset) ==
  /\ zoomTarget' = ScrollTarget(zoomTarget, yOffset, shiftDown)
  /\ UNCHANGED <<lastMouseX, lastMouseY, zoomLevel,
                 rotX, rotY, targetRotX, targetRotY, mouseDown>>

ScrollEvent ==
  /\ pc = "poll"
  /\ nEvents < MaxEvents
  /\ \E yOffset \in ScrollOffsets : ScrollCallback(yOffset)
  /\ nEvents' = nEvents + 1
  /\ UNCHANGED <<fileVars, pc, callVars, loadVars, frameVars, envVars>>

\* lines 41-48, and the key state glfwGetKey reads at line 67
KeyCallback(key, action) ==
  /\ shouldClose' = (shouldClose \/ (action = "PRESS" /\ key = "ESCAPE"))
  /\ shiftDown' = IF key = "LEFT_SHIFT" THEN action = "PRESS" ELSE shiftDown

KeyEvent ==
  /\ pc = "poll"
  /\ nEvents < MaxEvents
  /\ \E key \in {"ESCAPE", "LEFT_SHIFT"}, action \in {"PRESS", "RELEASE"} :
       /\ key = "LEFT_SHIFT" => (action = "PRESS") # shiftDown
       /\ KeyCallback(key, action)
  /\ nEvents' = nEvents + 1
  /\ UNCHANGED <<fileVars, pc, callVars, loadVars, camVars, frameVars,
                 cursorX, cursorY, windowOpen>>

\* the close button: GLFW sets the flag that line 188 reads
WindowCloseRequest ==
  /\ pc = "poll"
  /\ nEvents < MaxEvents
  /\ ~shouldClose
  /\ shouldClose' = TRUE
  /\ nEvents' = nEvents + 1
  /\ UNCHANGED <<fileVars, pc, callVars, loadVars, camVars, frameVars,
                 cursorX, cursorY, shiftDown, windowOpen>>

\* line 233 returns
PollReturn ==
  /\ pc = "poll"
  /\ pc' = "frame"
  /\ UNCHANGED <<fileVars, callVars, loadVars, camVars, frameVars, envVars, nEvents>>

----------------------------------------------------------------------------
(* the render loop *)

\* frame times glfwGetTime can yield: none, a fraction of a second, a second,
\* more than a second (a stalled frame)
SmallDeltaTimes == {<<0, 1>>, <<1, 2>>, <<1, 1>>}
DeltaTimes == SmallDeltaTimes \cup {<<3, 2>>}
ConvergeDeltas == {<<1, 2>>, <<3, 4>>}

\* Advance with the difference of line 193 taken the other way round
Advance_SignSlip(v, target, dt) == RAdd(v, RMul(RSub(v, target), dt))

\* lines 193-195: v += (target - v) * deltaTime
Advance(v, target, dt) == RAdd(v, RMul(RSub(target, v), dt))

\* FrameStep had line 195 been copied from line 194 with its target unchanged
FrameStep_CopiedTarget(dt, size) ==
  /\ pc = "frame"
  /\ ~shouldClose
  /\ deltaTime' = dt
  /\ zoomLevel' = RAdd(zoomLevel, RMul(RSub(zoomTarget, zoomLevel), dt))
  /\ rotX' = RAdd(rotX, RMul(RSub(targetRotX, rotX), dt))
  /\ rotY' = RAdd(rotY, RMul(RSub(targetRotX, rotY), dt))
  /\ winWidth' = size[1]
  /\ winHeight' = size[2]
  /\ nFrames' = nFrames + 1
  /\ pc' = "poll"
  /\ UNCHANGED <<fileVars, callVars, loadVars, lastMouseX, lastMouseY, zoomTarget,
                 targetRotX, targetRotY, mouseDown, envVars, nEvents>>

\* lines 189-233 up to the call of glfwPollEvents
FrameStep(dt, size) ==
  /\ pc = "frame"
  /\ ~shouldClose
  /\ deltaTime' = dt
  /\ zoomLevel' = Advance(zoomLevel, zoomTarget, dt)
  /\ rotX' = Advance(rotX, targetRotX, dt)
  /\ rotY' = Advance(rotY, targetRotY, dt)
  /\ winWidth' = size[1]
  /\ winHeight' = size[2]
  /\ nFrames' = nFrames + 1
  /\ pc' = "poll"
  /\ UNCHANGED <<fileVars, callVars, loadVars, lastMouseX, lastMouseY, zoomTarget,
                 targetRotX, targetRotY, mouseDown, envVars, nEvents>>

Frame ==
  /\ nFrames < MaxFrames
  /\ \E dt \in DeltaTimes, size \in WinSizes : FrameStep(dt, size)

\* lines 188, 236-237
FrameExit ==
  /\ pc = "frame"
  /\ shouldClose
  /\ windowOpen' = FALSE
  /\ pc' = "exit_success"
  /\ UNCHANGED <<fileVars, callVars, loadVars, camVars, frameVars,
                 cursorX, cursorY, shiftDown, shouldClose, nEvents>>

----------------------------------------------------------------------------
(* the whole program *)

\* lines 27-35: the globals before main runs
GlobalsInit ==
  /\ points = <<>>
  /\ winWidth = 0 /\ winHeight = 0
  /\ lastMouseX = Num(0) /\ lastMouseY = Num(0)
  /\ zoomLevel = Num(1) /\ zoomTarget = Num(1)
  /\ rotX = Num(0) /\ rotY = Num(0)
  /\ targetRotX = Num(0) /\ targetRotY = Num(0)
  /\ mouseDown = FALSE

\* locals not yet live, and the window system before the window exists
LocalsInit ==
  /\ ret = 0 /\ prevPoints = <<>>
  /\ sortBuffer = <<>> /\ length = 0 /\ i = 0
  /\ deltaTime = Num(0)
  /\ shiftDown = FALSE /\ shouldClose = FALSE /\ windowOpen = FALSE
  /\ nEvents = 0 /\ nFrames = 0

Init ==
  /\ argc \in {1, 2}
  /\ fileOpens \in BOOLEAN
  /\ fileBytes \in UNION {[1..k -> MainByteVals] : k \in MainFileLengths}
  /\ argc = 1 => ~fileOpens
  /\ ~fileOpens => fileBytes = <<>>
  /\ charSigned \in BOOLEAN
  /\ \E c \in CursorPositions : cursorX = c[1] /\ cursorY = c[2]
  /\ pc = "main"
  /\ nLoads = 0
  /\ GlobalsInit
  /\ LocalsInit

Next ==
  \/ MainUsage
  \/ MainCallLoadFile
  \/ LoadFile
  \/ MainLoadFailed
  \/ MainLoadOk
  \/ GlfwInit
  \/ CreateWindow
  \/ Frame
  \/ CursorEvent
  \/ MouseButtonEvent
  \/ ScrollEvent
  \/ KeyEvent
  \/ WindowCloseRequest
  \/ PollReturn
  \/ FrameExit

Spec == Init /\ [][Next]_vars

----------------------------------------------------------------------------
(* loadFile on its own: one call, on every file of up to MaxLen bytes *)

InitBuild ==
  /\ argc = 2
  /\ fileOpens \in BOOLEAN
  /\ fileBytes \in SeqsUpTo(ByteVals, MaxLen)
  /\ ~fileOpens => fileBytes = <<>>
  /\ charSigned \in BOOLEAN
  /\ cursorX = 0 /\ cursorY = 0
  /\ pc = "loadFile"
  /\ nLoads = 1
  /\ GlobalsInit
  /\ LocalsInit

NextBuild == LoadFile

SpecBuild == InitBuild /\ [][NextBuild]_vars

----------------------------------------------------------------------------
(* loadFile called again: it has external linkage and works on the global set *)

ReloadFiles == SeqsUpTo(MainByteVals, ReloadMaxLen)

InitReload ==
  /\ argc = 2
  /\ fileOpens \in BOOLEAN
  /\ fileBytes \in ReloadFiles
  /\ ~fileOpens => fileBytes = <<>>
  /\ charSigned \in BOOLEAN
  /\ cursorX = 0 /\ cursorY = 0
  /\ pc = "loadFile"
  /\ nLoads = 1
  /\ GlobalsInit
  /\ LocalsInit

\* line 78: a further call, on another file
CallLoadFile ==
  /\ pc = "loaded"
  /\ nLoads < MaxLoads
  /\ \E opens \in BOOLEAN, bytes \in ReloadFiles :
       /\ ~opens => bytes = <<>>
       /\ fileOpens' = opens
       /\ fileBytes' = bytes
  /\ prevPoints' = points
  /\ nLoads' = nLoads + 1
  /\ pc' = "loadFile"
  /\ UNCHANGED <<argc, charSigned, ret, loadVars, camVars, frameVars, envVars, nEvents>>

NextReload == LoadFile \/ CallLoadFile

SpecReload == InitReload /\ [][NextReload]_vars

----------------------------------------------------------------------------
(* the render loop left alone: the state after the first frame and the     *)
(* first batch of events (one scroll, one drag), then frames only, each    *)
(* a fraction of a second long                                             *)

InitConverge ==
  /\ argc = 2
  /\ fileOpens = TRUE
  /\ fileBytes = <<0, 0, 0>>
  /\ charSigned \in BOOLEAN
  /\ pc = "frame"
  /\ ret = 1 /\ prevPoints = <<>> /\ nLoads = 1
  /\ \E c \in IndeterminateInts : points = <<NewPoint(Pack(0, 0, 0), c)>>
  /\ sortBuffer = <<>> /\ length = 0 /\ i = 0
  /\ winWidth = 640 /\ winHeight = 480
  /\ deltaTime = Num(0)
  /\ zoomLevel = Num(1)
  /\ rotX = Num(0) /\ rotY = Num(0)
  /\ zoomTarget \in {Num(1)} \cup
       {ScrollTarget(Num(1), y, s) : y \in ScrollOffsets, s \in BOOLEAN}
  /\ \E c \in CursorPositions :
       /\ cursorX = c[1] /\ cursorY = c[2]
       /\ lastMouseX = Num(c[1]) /\ lastMouseY = Num(c[2])
       /\ targetRotX = DragTarget(Num(0), c[1], Num(0), 640)
       /\ targetRotY = DragTarget(Num(0), c[2], Num(0), 480)
  /\ mouseDown = FALSE
  /\ shiftDown = FALSE /\ shouldClose = FALSE /\ windowOpen = TRUE
  /\ nEvents = 2 /\ nFrames = 1

ConvergeFrame ==
  /\ nFrames < MaxConvFrames + 1
  /\ \E dt \in ConvergeDeltas, size \in WinSizes : FrameStep(dt, size)

NextConverge == ConvergeFrame \/ PollReturn

\* the loop of line 188 never blocks: glfwPollEvents returns at once
SpecConverge == InitConverge /\ [][NextConverge]_vars /\ WF_vars(NextConverge)

----------------------------------------------------------------------------
(* What the claims speak of *)

\* the complete triplets <<b0, b1, b2>> of a byte sequence
Triplets(bytes) ==
  {<<bytes[3 * k - 2], bytes[3 * k - 1], bytes[3 * k]>> : k \in 1..(Len(bytes) \div 3)}

\* the 24-bit key of a triplet of bytes 0..255: (b2 << 16) | (b1 << 8) | b0
Key24(t) == t[3] * 65536 + t[2] * 256 + t[1]

RECURSIVE AscendingSeq(_)
AscendingSeq(S) ==
  IF S = {} THEN <<>>
  ELSE LET m == CHOOSE x \in S : \A y \in S : x <= y
       IN  <<m>> \o AscendingSeq(S \ {m})

RECURSIVE SumCounts(_)
SumCounts(ps) == IF ps = <<>> THEN 0 ELSE Head(ps).count + SumCounts(Tail(ps))

\* the bytes <<b0, b1, b2>> a point's components decode to
Decoded(p) == <<p.radius, p.yRot, p.xRot>>

\* how many of the first n sorted values decode to point p
Occurrences(p, n) ==
  Cardinality({k \in 1..n : Decoded(NewPoint(sortBuffer[k], 0)) = Decoded(p)})

\* C1: after loadFile completes on a file of at least 3 bytes, the sum of the
\* points' counts plus the number of points is floor(len/3); during the walk
\* each point's count is the number of further occurrences of its triplet met
\* so far (0 when the point is emitted, one more per later occurrence).
C1_DuplicateCount ==
  /\ pc = "walk" =>
       /\ SumCounts(points) + Len(points) = i
       /\ \A k \in 1..Len(points) : points[k].count = Occurrences(points[k], i) - 1
  /\ (pc = "loaded" /\ ~LoadFails) =>
       SumCounts(points) + Len(points) = Len(fileBytes) \div 3

\* C2: the points correspond one-to-one to the distinct complete triplets of
\* the file, and the three components decoded from a point's key are the bytes
\* of its triplet.
C2_DecodedTriplets ==
  (pc = "loaded" /\ fileOpens) =>
    /\ {Decoded(points[k]) : k \in 1..Len(points)} = Triplets(fileBytes)
    /\ Len(points) = Cardinality(Triplets(fileBytes))

\* C3: the points are emitted in strictly ascending order of the 24-bit key
\* (b2 << 16) | (b1 << 8) | b0 of their triplets, bytes taken as 0..255: the
\* k-th point is the one made from the triplet with the k-th smallest key.
C3_AscendingKeyOrder ==
  (pc = "loaded" /\ fileOpens) =>
    LET keys == AscendingSeq({Key24(t) : t \in Triplets(fileBytes)})
        tripletOf(key) == <<key % 256, (key \div 256) % 256, key \div 65536>>
        pointOf(key) ==
          LET t == tripletOf(key) IN NewPoint(Pack(t[1], t[2], t[3]), 0)
    IN  /\ Len(points) = Len(keys)
        /\ \A k \in 1..Len(points) : Decoded(points[k]) = Decoded(pointOf(keys[k]))

\* C4 as stated: a load that fails leaves the previous point set as it was.
C4_FailedLoadKeepsPoints ==
  (pc = "loaded" /\ ret = 0) => points = prevPoints

\* C4 as amended: loadFile discards the previous point set on entry whatever
\* follows: a load that fails (the file does not open, or holds fewer than
\* 3 bytes) returns 0 and leaves the set empty; a load that succeeds returns
\* the number of triplets and leaves one point per distinct triplet of the
\* new file and nothing of the previous set.
C4_LoadReplacesPoints ==
  pc = "loaded" =>
    IF LoadFails
      THEN ret = 0 /\ points = <<>>
      ELSE /\ ret = Len(fileBytes) \div 3
           /\ Len(points) = Cardinality(Triplets(fileBytes))
           /\ \A k \in 1..Len(points) : \E t \in Triplets(fileBytes) :
                Decoded(points[k]) = Decoded(NewPoint(Pack(t[1], t[2], t[3]), 0))

C4_Witness ==
  pc = "loaded" /\ ret = 0 /\ nLoads = 2 /\ prevPoints # <<>> /\ points = <<>>

\* C5: with the argument missing, the file not opening, or fewer than 3 bytes
\* in it, the load returns 0 and the program goes to its failure exit, never
\* creating the window or entering the render loop; the window and the loop
\* are reached only after a load that gave at least one triplet.
C5_FailedLoadExits ==
  /\ (argc < 2 \/ LoadFails) =>
       /\ pc \in {"main", "loadFile", "walk", "loaded", "exit_failure"}
       /\ ~windowOpen
       /\ pc # "exit_failure" => ENABLED Next
  /\ (pc = "loaded" /\ LoadFails) => ret = 0
  /\ (windowOpen \/ pc \in {"createWindow", "frame", "poll", "exit_success"}) =>
       /\ argc >= 2 /\ ~LoadFails
       /\ ret >= 1 /\ Len(points) >= 1

C5_Witness ==
  /\ pc = "exit_failure" /\ ~windowOpen
  /\ argc = 2 /\ fileOpens /\ Len(fileBytes) = 2

\* C6: in every reachable state zoomTarget >= 0.1.
C6_ZoomTargetFloor == RLe(ZoomFloor, zoomTarget)

C6_Witness == zoomTarget = ZoomFloor /\ nEvents >= 1 /\ pc = "poll"

\* C7 as stated: in every reachable state zoomLevel > 0.
C7_ZoomLevelPositive == RLt(Num(0), zoomLevel)

\* C7 as amended: zoomLevel starts positive and stays positive over every
\* callback and over every frame whose deltaTime is at most 1; only a frame
\* longer than a second can take it to zero or below.
C7_ZoomLevelPositiveShortFrames ==
  /\ RLt(Num(0), zoomLevel)
  /\ [][(RLt(Num(0), zoomLevel) /\ (pc = "frame" => RLe(deltaTime', Num(1))))
         => RLt(Num(0), zoomLevel')]_vars

C7_Witness ==
  /\ pc = "poll"
  /\ RLt(Num(0), deltaTime) /\ RLe(deltaTime, Num(1))
  /\ zoomTarget = ZoomFloor
  /\ RLt(Num(0), zoomLevel) /\ RLt(zoomLevel, Num(1))

\* C8: a pointer move while a button is held changes targetRotX by
\* -(x' - x) / winWidth * 100 and targetRotY by -(y' - y) / winHeight * 100,
\* x, y being where the pointer was (where the button went down, for the first
\* move of a drag), whatever pointer events came before the press.
C8_DragFromPressPosition ==
  [][(pc = "poll" /\ mouseDown /\ <<cursorX', cursorY'>> # <<cursorX, cursorY>>) =>
       /\ targetRotX' = DragTarget(targetRotX, cursorX', Num(cursorX), winWidth)
       /\ targetRotY' = DragTarget(targetRotY, cursorY', Num(cursorY), winHeight)]_vars

\* C9: a pointer move sets lastMouseX/Y to the new place, changes the rotation
\* targets only while a button is held, and leaves rotX, rotY, zoomLevel,
\* zoomTarget and mouseDown alone; rotX, rotY and zoomLevel change in no step
\* but the frame's.
C9_PointerMoveEffect ==
  [][/\ (<<cursorX', cursorY'>> # <<cursorX, cursorY>>) =>
          /\ lastMouseX' = Num(cursorX') /\ lastMouseY' = Num(cursorY')
          /\ ~mouseDown => UNCHANGED <<targetRotX, targetRotY>>
          /\ UNCHANGED <<rotX, rotY, zoomLevel, zoomTarget, mouseDown>>
     /\ ~(pc = "frame" /\ pc' = "poll") => UNCHANGED <<rotX, rotY, zoomLevel>>]_vars

C9_Witness ==
  /\ pc = "poll" /\ nEvents = 1 /\ ~mouseDown
  /\ lastMouseX = Num(cursorX) /\ lastMouseY = Num(cursorY)
  /\ lastMouseX # Num(0)
  /\ targetRotX = Num(0) /\ targetRotY = Num(0)

\* the distance left after MaxConvFrames frames that each at least halve it,
\* from the largest distance InitConverge starts with (50)
Tolerance == RDiv(Num(50), Num(2 ^ MaxConvFrames))

Converged ==
  /\ RLe(RAbs(RSub(zoomTarget, zoomLevel)), Tolerance)
  /\ RLe(RAbs(RSub(targetRotX, rotX)), Tolerance)
  /\ RLe(RAbs(RSub(targetRotY, rotY)), Tolerance)

\* after a frame, the distance d1 to the target against the distance d0 before
Damped(d0, d1, dt) ==
  /\ d1 = RMul(RSub(Num(1), dt), d0)
  /\ RLe(RAbs(d1), RAbs(d0))
  /\ RSign(d1) = RSign(d0)

====
